---- MODULE Spec2Model ----
(***************************************************************************)
(* Model of QuantLib's SwaptionVolatilityStructure (swaptionvolstructure   *)
(* .hpp): the range checks, the date/time coordinate conversion and the    *)
(* three families of volatility / blackVariance queries.                   *)
(*                                                                         *)
(* Dates are serial day numbers in a calendar of 365-day years (serial 0   *)
(* is 1 January of year 0).  A Time is an integer number of 1/26280 years  *)
(* (26280 = lcm(360, 365)), so that Actual/365 and 30/360 year fractions   *)
(* are both exact.  Volatilities and strikes are integers.                 *)
(***************************************************************************)
EXTENDS Integers, Sequences, FiniteSets, TLC

VARIABLES
    referenceDate,        \* TermStructure: the reference date
    dayCounter,           \* TermStructure: the day counter chosen at construction
    bdc_,                 \* SwaptionVolatilityStructure::bdc_
    maxDate,              \* concrete surface: maxDate()
    maxSwapTenor,         \* concrete surface: maxSwapTenor()
    minStrike,            \* concrete surface: minStrike()
    maxStrike,            \* concrete surface: maxStrike()
    allowsExtrapolation,  \* Extrapolator: the per-instance extrapolation toggle
    last,                 \* the most recent call: its arguments and its outcome
    calState,             \* calibration loop: the state of the run
    params,               \* parametric model: its current parameter vector
    best,                 \* calibration loop: the best vector found so far
    iterations,           \* calibration loop: optimizer iterations done
    stationary,           \* calibration loop: iterations without improvement
    evaluated,            \* calibration loop: the seed and the vectors proposed
    engine,               \* calibration helper -> the pricing engine bound to it
    quote,                \* calibration helper -> its market quote
    cache,                \* calibration helper -> its cached calibration error
    observed              \* the latest value returned to the test

surface == <<referenceDate, dayCounter, bdc_, maxDate, maxSwapTenor,
             minStrike, maxStrike>>
calibration == <<calState, params, best, iterations, stationary, evaluated,
                 engine, quote, cache, observed>>
vars == <<referenceDate, dayCounter, bdc_, maxDate, maxSwapTenor,
          minStrike, maxStrike, allowsExtrapolation, last,
          calState, params, best, iterations, stationary, evaluated,
          engine, quote, cache, observed>>

(***************************************************************************)
(* Bounds of the explored inputs.                                          *)
(***************************************************************************)
MaxStrikeInput == 3
MaxTenorMonths == 2
MaxTenorYears == 1
TimeMargin == 1

(***************************************************************************)
(* Dates and periods (the date library the header builds on).              *)
(***************************************************************************)
MonthLength == <<31, 28, 31, 30, 31, 30, 31, 31, 30, 31, 30, 31>>
MonthOffset == <<0, 31, 59, 90, 120, 151, 181, 212, 243, 273, 304, 334>>

Min(a, b) == IF a <= b THEN a ELSE b
Max(a, b) == IF a >= b THEN a ELSE b

year(d) == d \div 365
dayOfYear(d) == (d % 365) + 1
month(d) ==
    CHOOSE m \in 1..12 :
        MonthOffset[m] < dayOfYear(d) /\ dayOfYear(d) <= MonthOffset[m] + MonthLength[m]
dayOfMonth(d) == dayOfYear(d) - MonthOffset[month(d)]
DateOf(y, m, d) == 365 * y + MonthOffset[m] + d - 1

Period(n, u) == [length |-> n, units |-> u]

\* the number of months a period of months or years spans
PeriodMonths(p) == IF p.units = "Years" THEN 12 * p.length ELSE p.length

\* p1 <= p2 on periods
PeriodLeq(p1, p2) == PeriodMonths(p1) <= PeriodMonths(p2)

\* d + p: same day of the month n months later, clipped to the month's end
DatePlus(d, p) ==
    LET total == 12 * year(d) + (month(d) - 1) + PeriodMonths(p)
        y == total \div 12
        m == (total % 12) + 1
    IN  DateOf(y, m, Min(dayOfMonth(d), MonthLength[m]))

\* Saturdays and Sundays are the calendar's holidays
isHoliday(d) == (d % 7) \in {5, 6}

RECURSIVE adjust(_, _)
adjust(d, c) ==
    IF c = "Unadjusted" \/ ~isHoliday(d) THEN d
    ELSE IF c = "Following" THEN adjust(d + 1, c)
    ELSE adjust(d - 1, c)

\* Calendar::advance(date, period, convention) for month and year periods
advance(d, p, c) == adjust(DatePlus(d, p), c)

\* 30/360 (bond basis) day count
dayCount30360(d1, d2) ==
    LET dd1 == dayOfMonth(d1)
        roll == dayOfMonth(d2) = 31 /\ dd1 < 30
        dd2 == IF roll THEN 1 ELSE dayOfMonth(d2)
        mm2 == IF roll THEN month(d2) + 1 ELSE month(d2)
    IN  360 * (year(d2) - year(d1)) + 30 * (mm2 - month(d1) - 1)
          + Max(0, 30 - dd1) + Min(30, dd2)

\* DayCounter::yearFraction, in 1/26280 years
yearFraction(dc, d1, d2) ==
    IF dc = "Actual365Fixed" THEN 72 * (d2 - d1)
    ELSE 73 * dayCount30360(d1, d2)

(***************************************************************************)
(* TermStructure, the base class.                                          *)
(***************************************************************************)
timeFromReference(d) == yearFraction(dayCounter, referenceDate, d)

maxTime == timeFromReference(maxDate)

\* TermStructure::checkRange(Time, bool): "" when the time is accepted
TermStructure_checkRange(t, extrapolate) ==
    IF extrapolate \/ allowsExtrapolation \/ (0 <= t /\ t <= maxTime)
    THEN ""
    ELSE "time is outside the curve domain"

(***************************************************************************)
(* Outcomes.  A call either returns a value or fails with an error; trace  *)
(* lists the steps the call went through and implArgs the argument triples *)
(* that reached the time-based volatilityImpl.                             *)
(***************************************************************************)
Returned(v, tr, ia) ==
    [ok |-> TRUE, err |-> "", val |-> v, trace |-> tr, implArgs |-> ia]
Failed(e, tr, ia) ==
    [ok |-> FALSE, err |-> e, val |-> 0, trace |-> tr, implArgs |-> ia]

PairReturned(t, l) == [ok |-> TRUE, err |-> "", first |-> t, second |-> l]
PairFailed(e) == [ok |-> FALSE, err |-> e, first |-> 0, second |-> 0]

(***************************************************************************)
(* SwaptionVolatilityStructure.                                            *)
(***************************************************************************)
businessDayConvention == bdc_

\* optionDateFromTenor leaving out the business-day adjustment
optionDateFromTenor_Unadjusted(optionTenor) ==
    DatePlus(referenceDate, optionTenor)

optionDateFromTenor(optionTenor) ==
    advance(referenceDate, optionTenor, businessDayConvention)

\* maxSwapLength computed once, from the reference date at construction
maxSwapLength_AtConstruction ==
    yearFraction(dayCounter, DateOf(1, 2, 1),
                 DatePlus(DateOf(1, 2, 1), maxSwapTenor))

maxSwapLength == timeFromReference(DatePlus(referenceDate, maxSwapTenor))

\* the concrete surface's time-based volatility: some function of its
\* three coordinates, positive and sensitive to each of them
volatilityImpl(optionTime, swapLength, strike) ==
    1 + ((3 * optionTime + 5 * swapLength + 7 * strike) % 11)

\* convertDates accepting an end date equal to the option date
convertDates_ZeroAccepted(optionDate, swapTenor) ==
    LET end == DatePlus(optionDate, swapTenor) IN
    IF ~(end >= optionDate) THEN PairFailed("negative swap tenor")
    ELSE PairReturned(timeFromReference(optionDate),
                      yearFraction(dayCounter, optionDate, end))

\* convertDates measuring the instrument length from the reference date
convertDates_FromReference(optionDate, swapTenor) ==
    LET end == DatePlus(optionDate, swapTenor) IN
    IF ~(end > optionDate) THEN PairFailed("negative swap tenor")
    ELSE PairReturned(timeFromReference(optionDate),
                      yearFraction(dayCounter, referenceDate, end))

convertDates(optionDate, swapTenor) ==
    LET end == DatePlus(optionDate, swapTenor) IN
    IF ~(end > optionDate) THEN PairFailed("negative swap tenor")
    ELSE PairReturned(timeFromReference(optionDate),
                      yearFraction(dayCounter, optionDate, end))

\* the concrete surface's time-based smile-section factory: the section it
\* returns is some function of the two coordinates
smileSection_Time(optionTime, swapLength) ==
    1 + ((3 * optionTime + 5 * swapLength) % 11)

\* checkRange letting extrapolation excuse a negative swapLength
checkRange_Time_NegativeExcused(optionTime, swapLength, k, extrapolate) ==
    LET base == TermStructure_checkRange(optionTime, extrapolate) IN
    IF base # "" THEN base
    ELSE IF ~(extrapolate \/ allowsExtrapolation \/ swapLength >= 0)
        THEN "negative swapLength"
    ELSE IF ~(extrapolate \/ allowsExtrapolation \/ swapLength <= maxSwapLength)
        THEN "swapLength is past max curve swapLength"
    ELSE IF ~(extrapolate \/ allowsExtrapolation
              \/ (k >= minStrike /\ k <= maxStrike))
        THEN "strike is outside the curve domain"
    ELSE ""

\* checkRange with the maximum swapLength excluded from the domain
checkRange_Time_MaxExcluded(optionTime, swapLength, k, extrapolate) ==
    LET base == TermStructure_checkRange(optionTime, extrapolate) IN
    IF base # "" THEN base
    ELSE IF ~(swapLength >= 0) THEN "negative swapLength"
    ELSE IF ~(extrapolate \/ allowsExtrapolation \/ swapLength < maxSwapLength)
        THEN "swapLength is past max curve swapLength"
    ELSE IF ~(extrapolate \/ allowsExtrapolation
              \/ (k >= minStrike /\ k <= maxStrike))
        THEN "strike is outside the curve domain"
    ELSE ""

checkRange_Time(optionTime, swapLength, k, extrapolate) ==
    LET base == TermStructure_checkRange(optionTime, extrapolate) IN
    IF base # "" THEN base
    ELSE IF ~(swapLength >= 0) THEN "negative swapLength"
    ELSE IF ~(extrapolate \/ allowsExtrapolation \/ swapLength <= maxSwapLength)
        THEN "swapLength is past max curve swapLength"
    ELSE IF ~(extrapolate \/ allowsExtrapolation
              \/ (k >= minStrike /\ k <= maxStrike))
        THEN "strike is outside the curve domain"
    ELSE ""

\* checkRange whose strike check ignores the per-instance setting
checkRange_Date_StrikePerCallOnly(optionDate, swapTenor, k, extrapolate) ==
    LET base == TermStructure_checkRange(timeFromReference(optionDate),
                                         extrapolate) IN
    IF base # "" THEN base
    ELSE IF ~(swapTenor.length > 0) THEN "negative swap tenor"
    ELSE IF ~(extrapolate \/ allowsExtrapolation
              \/ PeriodLeq(swapTenor, maxSwapTenor))
        THEN "swap tenor is past max tenor"
    ELSE IF ~(extrapolate \/ (k >= minStrike /\ k <= maxStrike))
        THEN "strike is outside the curve domain"
    ELSE ""

checkRange_Date(optionDate, swapTenor, k, extrapolate) ==
    LET base == TermStructure_checkRange(timeFromReference(optionDate),
                                         extrapolate) IN
    IF base # "" THEN base
    ELSE IF ~(swapTenor.length > 0) THEN "negative swap tenor"
    ELSE IF ~(extrapolate \/ allowsExtrapolation
              \/ PeriodLeq(swapTenor, maxSwapTenor))
        THEN "swap tenor is past max tenor"
    ELSE IF ~(extrapolate \/ allowsExtrapolation
              \/ (k >= minStrike /\ k <= maxStrike))
        THEN "strike is outside the curve domain"
    ELSE ""

\* the date-based smileSection validating its arguments like a volatility query
smileSection_Date_Checked(optionDate, swapTenor) ==
    LET e == checkRange_Date(optionDate, swapTenor, minStrike, FALSE)
        p == convertDates(optionDate, swapTenor) IN
    IF e # "" THEN Failed(e, <<"checkRange">>, <<>>)
    ELSE IF ~p.ok THEN Failed(p.err, <<"convertDates">>, <<>>)
    ELSE Returned(smileSection_Time(p.first, p.second),
                  <<"convertDates", "smileSection">>,
                  << <<p.first, p.second>> >>)

\* smileSection(const Date&, const Period&)
smileSection_Date(optionDate, swapTenor) ==
    LET p == convertDates(optionDate, swapTenor) IN
    IF ~p.ok THEN Failed(p.err, <<"convertDates">>, <<>>)
    ELSE Returned(smileSection_Time(p.first, p.second),
                  <<"convertDates", "smileSection">>,
                  << <<p.first, p.second>> >>)

\* the date-based volatilityImpl passing the converted pair in the wrong order
volatilityImpl_Date_Swapped(optionDate, swapTenor, strike) ==
    LET p == convertDates(optionDate, swapTenor) IN
    IF ~p.ok THEN Failed(p.err, <<"convertDates">>, <<>>)
    ELSE Returned(volatilityImpl(p.second, p.first, strike),
                  <<"convertDates", "volatilityImpl">>,
                  << <<p.second, p.first, strike>> >>)

\* volatilityImpl(const Date&, const Period&, Rate)
volatilityImpl_Date(optionDate, swapTenor, strike) ==
    LET p == convertDates(optionDate, swapTenor) IN
    IF ~p.ok THEN Failed(p.err, <<"convertDates">>, <<>>)
    ELSE Returned(volatilityImpl(p.first, p.second, strike),
                  <<"convertDates", "volatilityImpl">>,
                  << <<p.first, p.second, strike>> >>)

\* volatility clamping the swapLength into the domain before anything else
volatility_Time_Clamped(optionTime, swapLength, strike, extrapolate) ==
    LET len == Max(0, Min(swapLength, maxSwapLength))
        c == checkRange_Time(optionTime, len, strike, extrapolate)
    IN  IF c # "" THEN Failed(c, <<"checkRange">>, <<>>)
        ELSE Returned(volatilityImpl(optionTime, len, strike),
                      <<"checkRange", "volatilityImpl">>,
                      << <<optionTime, len, strike>> >>)

volatility_Time(optionTime, swapLength, strike, extrapolate) ==
    LET c == checkRange_Time(optionTime, swapLength, strike, extrapolate) IN
    IF c # "" THEN Failed(c, <<"checkRange">>, <<>>)
    ELSE Returned(volatilityImpl(optionTime, swapLength, strike),
                  <<"checkRange", "volatilityImpl">>,
                  << <<optionTime, swapLength, strike>> >>)

blackVariance_Time(optionTime, swapLength, strike, extrapolate) ==
    LET c == checkRange_Time(optionTime, swapLength, strike, extrapolate)
        vol == volatilityImpl(optionTime, swapLength, strike)
    IN  IF c # "" THEN Failed(c, <<"checkRange">>, <<>>)
        ELSE Returned(vol * vol * optionTime,
                      <<"checkRange", "volatilityImpl">>,
                      << <<optionTime, swapLength, strike>> >>)

volatility_Date(optionDate, swapTenor, strike, extrapolate) ==
    LET c == checkRange_Date(optionDate, swapTenor, strike, extrapolate)
        r == volatilityImpl_Date(optionDate, swapTenor, strike)
    IN  IF c # "" THEN Failed(c, <<"checkRange">>, <<>>)
        ELSE IF ~r.ok THEN Failed(r.err, <<"checkRange">> \o r.trace, r.implArgs)
        ELSE Returned(r.val, <<"checkRange">> \o r.trace, r.implArgs)

\* blackVariance multiplying by the instrument length
blackVariance_Date_ByLength(optionDate, swapTenor, strike, extrapolate) ==
    LET vol == volatility_Date(optionDate, swapTenor, strike, extrapolate)
        p == convertDates(optionDate, swapTenor)
    IN  IF ~vol.ok THEN vol
        ELSE IF ~p.ok
            THEN Failed(p.err, vol.trace \o <<"convertDates">>, vol.implArgs)
        ELSE Returned(vol.val * vol.val * p.second,
                      vol.trace \o <<"convertDates">>, vol.implArgs)

blackVariance_Date(optionDate, swapTenor, strike, extrapolate) ==
    LET vol == volatility_Date(optionDate, swapTenor, strike, extrapolate)
        p == convertDates(optionDate, swapTenor)
    IN  IF ~vol.ok THEN vol
        ELSE IF ~p.ok
            THEN Failed(p.err, vol.trace \o <<"convertDates">>, vol.implArgs)
        ELSE Returned(vol.val * vol.val * p.first,
                      vol.trace \o <<"convertDates">>, vol.implArgs)

volatility_Tenor(optionTenor, swapTenor, strike, extrapolate) ==
    LET optionDate == optionDateFromTenor(optionTenor) IN
    volatility_Date(optionDate, swapTenor, strike, extrapolate)

blackVariance_Tenor(optionTenor, swapTenor, strike, extrapolate) ==
    LET optionDate == optionDateFromTenor(optionTenor)
        vol == volatility_Date(optionDate, swapTenor, strike, extrapolate)
        p == convertDates(optionDate, swapTenor)
    IN  IF ~vol.ok THEN vol
        ELSE IF ~p.ok
            THEN Failed(p.err, vol.trace \o <<"convertDates">>, vol.implArgs)
        ELSE Returned(vol.val * vol.val * p.first,
                      vol.trace \o <<"convertDates">>, vol.implArgs)

(***************************************************************************)
(* The explored inputs.                                                    *)
(***************************************************************************)
Strikes == 0..MaxStrikeInput
SwapTenors ==
    {Period(n, "Months") : n \in (-1)..MaxTenorMonths}
        \cup {Period(n, "Years") : n \in 1..MaxTenorYears}
OptionTenors ==
    {Period(n, "Months") : n \in 0..1}
        \cup {Period(n, "Years") : n \in 1..MaxTenorYears}
OptionDates ==
    {DateOf(1, 1, 31), DateOf(1, 2, 1), DateOf(1, 3, 1), DateOf(1, 3, 31),
     DateOf(1, 5, 1)}
OptionTimes == {-1, 0} \cup {maxTime + i : i \in 0..TimeMargin}
SwapLengths == {-1, 0} \cup {maxSwapLength + i : i \in 0..TimeMargin}

\* the reference dates a moving evaluation date gives the surface
ReferenceDates == {DateOf(1, 2, 1), DateOf(1, 3, 1)}

NoPeriod == Period(0, "Months")

\* the record of a call: the arguments it was given (the others at their
\* defaults) and its outcome
Call(op, t, l, d, ot, st, k, e, r) ==
    [op |-> op, optionTime |-> t, swapLength |-> l, optionDate |-> d,
     optionTenor |-> ot, swapTenor |-> st, strike |-> k, extrapolate |-> e,
     ok |-> r.ok, err |-> r.err, val |-> r.val, first |-> 0, second |-> 0,
     trace |-> r.trace, implArgs |-> r.implArgs]

PairCall(op, d, st, p) ==
    [op |-> op, optionTime |-> 0, swapLength |-> 0, optionDate |-> d,
     optionTenor |-> NoPeriod, swapTenor |-> st, strike |-> 0,
     extrapolate |-> FALSE,
     ok |-> p.ok, err |-> p.err, val |-> 0, first |-> p.first,
     second |-> p.second, trace |-> <<>>, implArgs |-> <<>>]

NoCall(op) == PairCall(op, 0, NoPeriod, PairReturned(0, 0))

\* The caller is sequential: it holds the outcome of its latest query until
\* it drops it, and only then makes its next call.
IdleOps == {"constructor", "enableExtrapolation", "disableExtrapolation", "discard"}
Idle == last.op \in IdleOps

(***************************************************************************)
(* Calibration: a parametric model, calibration helpers bound to pricing   *)
(* engines, and the loop that fits the model's parameters to the quotes.   *)
(* Parameter vectors, model values and quotes are small integers.  The     *)
(* end criteria of the test (400 iterations, 40 stationary iterations) are *)
(* scaled down to MaxIterations and MaxStationaryIterations.               *)
(***************************************************************************)
NumHelpers == 2
MaxParamVector == 2
MaxQuote == 1
MaxIterations == 4
MaxStationaryIterations == 2
FunctionEpsilon == 0

Helpers == 1..NumHelpers
ParamVectors == 0..MaxParamVector
QuoteValues == 0..MaxQuote
Engines == {"BatesEngine", "BatesDetJumpEngine"}
Terminal == {"Converged", "MaxIterationsExceeded", "Stalled"}

\* the value an engine gives helper h: the BatesEngine prices with the
\* calibrated model's parameter vector p, the BatesDetJumpEngine with the
\* fixed parameters of its own model
modelValue(h, e, p) ==
    IF e = "BatesEngine" THEN (3 * p + h) % 4 ELSE (h + 2) % 4

\* the calibration error of helper h, computed anew
computedError(h, e, p, q) == [valid |-> TRUE, value |-> modelValue(h, e, p) - q, by |-> e]

Invalid == [valid |-> FALSE, value |-> 0, by |-> ""]

\* CalibrationHelper::calibrationError(): lazily (re)computed
calibrationError(h) ==
    IF cache[h].valid THEN cache[h]
    ELSE computedError(h, engine[h], params, quote[h])

RECURSIVE SumTo(_, _)
SumTo(f, n) == IF n = 0 THEN 0 ELSE f[n] + SumTo(f, n - 1)

\* getCalibrationError(options): the sum of the squared errors, in
\* percentage points
getCalibrationError ==
    SumTo([h \in Helpers |-> (calibrationError(h).value * 100)
                               * (calibrationError(h).value * 100)],
          NumHelpers)

\* the loop's objective at parameter vector p: the sum of the squared
\* calibration errors of all helpers under p
Objective(p) ==
    SumTo([h \in Helpers |->
              (modelValue(h, engine[h], p) - quote[h])
                * (modelValue(h, engine[h], p) - quote[h])],
          NumHelpers)

\* a proposal replacing the best vector although it is worse
Improves_Inverted(p, b) == Objective(p) > Objective(b)

\* whether proposal p improves on the best vector b
Improves(p, b) == Objective(p) < Objective(b)

\* setPricingEngine keeping the result cached from the previous engine
Rebound_CacheKept(c, h) == c

\* the helper's cache after setPricingEngine: the cached result is discarded
Rebound(c, h) == [c EXCEPT ![h] = Invalid]

\* a parameter update that reaches no observer
Notified_Nobody(c) == c

\* the caches after the model notifies its observers of a parameter update:
\* the helpers priced by the model's engine drop their results
Notified(c) ==
    [h \in Helpers |-> IF engine[h] = "BatesEngine" THEN Invalid ELSE c[h]]

\* the caches after the objective was evaluated under parameter vector p
Evaluated(c, p) ==
    [h \in Helpers |->
        IF c[h].valid THEN c[h]
        ELSE computedError(h, engine[h], p, quote[h])]

\* the end criterion that fires, "" when none does
EndReason ==
    IF iterations >= MaxIterations THEN "MaxIterationsExceeded"
    ELSE IF stationary >= MaxStationaryIterations THEN "Stalled"
    ELSE IF Objective(best) <= FunctionEpsilon THEN "Converged"
    ELSE ""

NoObservation == [op |-> "none", helper |-> 0, value |-> 0, by |-> ""]

surfaceVars == <<surface, allowsExtrapolation, last>>
loopVars == <<calState, params, best, iterations, stationary, evaluated>>

\* the state after the test's set-up: the model at its seed vector, every
\* helper bound to the BatesEngine, nothing computed yet
CalibrationInit ==
    /\ calState = "Initialized"
    /\ params = 0
    /\ best = 0
    /\ iterations = 0
    /\ stationary = 0
    /\ evaluated = {}
    /\ engine = [h \in Helpers |-> "BatesEngine"]
    /\ quote = [h \in Helpers |-> (h - 1) % (MaxQuote + 1)]
    /\ cache = [h \in Helpers |-> Invalid]
    /\ observed = NoObservation

SetPricingEngine ==
    /\ calState # "Iterating"
    /\ \E h \in Helpers, e \in Engines :
           /\ engine' = [engine EXCEPT ![h] = e]
           /\ cache' = Rebound(cache, h)
    /\ observed' = NoObservation
    /\ UNCHANGED <<surfaceVars, loopVars, quote>>

\* SimpleQuote::setValue on a helper's quote; the helper observes its quote
SetQuote ==
    /\ calState # "Iterating"
    /\ \E h \in Helpers, q \in QuoteValues :
           /\ q # quote[h]
           /\ quote' = [quote EXCEPT ![h] = q]
           /\ cache' = [cache EXCEPT ![h] = Invalid]
    /\ observed' = NoObservation
    /\ UNCHANGED <<surfaceVars, loopVars, engine>>

CalibrationError ==
    /\ calState # "Iterating"
    /\ \E h \in Helpers :
           /\ observed' = [op |-> "calibrationError", helper |-> h,
                           value |-> calibrationError(h).value,
                           by |-> calibrationError(h).by]
           /\ cache' = [cache EXCEPT ![h] = calibrationError(h)]
    /\ UNCHANGED <<surfaceVars, loopVars, engine, quote>>

GetCalibrationError ==
    /\ calState # "Iterating"
    /\ observed' = [op |-> "getCalibrationError", helper |-> 0,
                    value |-> getCalibrationError, by |-> ""]
    /\ cache' = [h \in Helpers |-> calibrationError(h)]
    /\ UNCHANGED <<surfaceVars, loopVars, engine, quote>>

\* calibrate(...) is entered: the objective is evaluated at the seed vector
Calibrate ==
    /\ calState = "Initialized"
    /\ calState' = "Iterating"
    /\ best' = params
    /\ evaluated' = {params}
    /\ iterations' = 0
    /\ stationary' = 0
    /\ cache' = Evaluated(Notified(cache), params)
    /\ observed' = NoObservation
    /\ UNCHANGED <<surfaceVars, params, engine, quote>>

\* one optimizer iteration: a vector is proposed, the model takes it and
\* every helper's error is recomputed under it
Iterate ==
    /\ calState = "Iterating"
    /\ EndReason = ""
    /\ \E p \in ParamVectors :
           /\ params' = p
           /\ cache' = Evaluated(Notified(cache), p)
           /\ evaluated' = evaluated \cup {p}
           /\ IF Improves(p, best)
              THEN best' = p /\ stationary' = 0
              ELSE best' = best /\ stationary' = stationary + 1
    /\ iterations' = iterations + 1
    /\ UNCHANGED <<surfaceVars, calState, engine, quote, observed>>

\* an end criterion fires: the model is left with the best vector found
Finish ==
    /\ calState = "Iterating"
    /\ EndReason # ""
    /\ calState' = EndReason
    /\ params' = best
    /\ cache' = Notified(cache)
    /\ UNCHANGED <<surfaceVars, best, iterations, stationary, evaluated,
                   engine, quote, observed>>

CalibrationNext ==
    \/ SetPricingEngine
    \/ SetQuote
    \/ CalibrationError
    \/ GetCalibrationError
    \/ Calibrate
    \/ Iterate
    \/ Finish

(***************************************************************************)
(* The state after construction: a concrete surface with its limits, the   *)
(* extrapolation toggle off.                                               *)
(***************************************************************************)
SurfaceInit ==
    /\ referenceDate = DateOf(1, 2, 1)
    /\ dayCounter \in {"Actual365Fixed", "Thirty360"}
    /\ bdc_ \in {"Unadjusted", "Following", "Preceding"}
    /\ maxDate = DateOf(1, 4, 1)
    /\ maxSwapTenor \in {Period(1, "Months"), Period(1, "Years")}
    /\ \E limits \in {<<1, 2>>, <<2, 1>>} :
           minStrike = limits[1] /\ maxStrike = limits[2]
    /\ allowsExtrapolation = FALSE
    /\ last = NoCall("constructor")

Init == SurfaceInit /\ CalibrationInit

(***************************************************************************)
(* The operations.                                                         *)
(***************************************************************************)
EnableExtrapolation ==
    /\ Idle
    /\ allowsExtrapolation' = TRUE
    /\ last' = NoCall("enableExtrapolation")
    /\ UNCHANGED <<surface, calibration>>

DisableExtrapolation ==
    /\ Idle
    /\ allowsExtrapolation' = FALSE
    /\ last' = NoCall("disableExtrapolation")
    /\ UNCHANGED <<surface, calibration>>

VolatilityTime ==
    /\ Idle
    /\ \E t \in OptionTimes, l \in SwapLengths, k \in Strikes, e \in BOOLEAN :
           /\ last' = Call("volatility(Time)", t, l, 0, NoPeriod, NoPeriod, k, e,
                           volatility_Time(t, l, k, e))
           /\ UNCHANGED <<surface, allowsExtrapolation, calibration>>

BlackVarianceTime ==
    /\ Idle
    /\ \E t \in OptionTimes, l \in SwapLengths, k \in Strikes, e \in BOOLEAN :
           /\ last' = Call("blackVariance(Time)", t, l, 0, NoPeriod, NoPeriod, k, e,
                           blackVariance_Time(t, l, k, e))
           /\ UNCHANGED <<surface, allowsExtrapolation, calibration>>

VolatilityDate ==
    /\ Idle
    /\ \E d \in OptionDates, st \in SwapTenors, k \in Strikes, e \in BOOLEAN :
           /\ last' = Call("volatility(Date)", 0, 0, d, NoPeriod, st, k, e,
                           volatility_Date(d, st, k, e))
           /\ UNCHANGED <<surface, allowsExtrapolation, calibration>>

BlackVarianceDate ==
    /\ Idle
    /\ \E d \in OptionDates, st \in SwapTenors, k \in Strikes, e \in BOOLEAN :
           /\ last' = Call("blackVariance(Date)", 0, 0, d, NoPeriod, st, k, e,
                           blackVariance_Date(d, st, k, e))
           /\ UNCHANGED <<surface, allowsExtrapolation, calibration>>

VolatilityTenor ==
    /\ Idle
    /\ \E ot \in OptionTenors, st \in SwapTenors, k \in Strikes, e \in BOOLEAN :
           /\ last' = Call("volatility(Period)", 0, 0, 0, ot, st, k, e,
                           volatility_Tenor(ot, st, k, e))
           /\ UNCHANGED <<surface, allowsExtrapolation, calibration>>

BlackVarianceTenor ==
    /\ Idle
    /\ \E ot \in OptionTenors, st \in SwapTenors, k \in Strikes, e \in BOOLEAN :
           /\ last' = Call("blackVariance(Period)", 0, 0, 0, ot, st, k, e,
                           blackVariance_Tenor(ot, st, k, e))
           /\ UNCHANGED <<surface, allowsExtrapolation, calibration>>

ConvertDates ==
    /\ Idle
    /\ \E d \in OptionDates, st \in SwapTenors :
           /\ last' = PairCall("convertDates", d, st, convertDates(d, st))
           /\ UNCHANGED <<surface, allowsExtrapolation, calibration>>

OptionDateFromTenor ==
    /\ Idle
    /\ \E ot \in OptionTenors :
           /\ last' = Call("optionDateFromTenor", 0, 0, 0, ot, NoPeriod, 0, FALSE,
                           Returned(optionDateFromTenor(ot), <<>>, <<>>))
           /\ UNCHANGED <<surface, allowsExtrapolation, calibration>>

\* the caller drops the outcome it holds
SmileSection ==
    /\ Idle
    /\ \E d \in OptionDates, st \in SwapTenors :
           /\ last' = Call("smileSection(Date)", 0, 0, d, NoPeriod, st, 0, FALSE,
                           smileSection_Date(d, st))
           /\ UNCHANGED <<surface, allowsExtrapolation, calibration>>

MaxSwapLength ==
    /\ Idle
    /\ last' = Call("maxSwapLength", 0, 0, 0, NoPeriod, NoPeriod, 0, FALSE,
                    Returned(maxSwapLength, <<>>, <<>>))
    /\ UNCHANGED <<surface, allowsExtrapolation, calibration>>

\* the evaluation date moves and the surface re-derives its reference date
ReDeriveReferenceDate ==
    /\ Idle
    /\ \E d \in ReferenceDates :
           /\ d # referenceDate
           /\ referenceDate' = d
    /\ UNCHANGED <<dayCounter, bdc_, maxDate, maxSwapTenor, minStrike,
                   maxStrike, allowsExtrapolation, last, calibration>>

Discard ==
    /\ ~Idle
    /\ last' = NoCall("discard")
    /\ UNCHANGED <<surface, allowsExtrapolation, calibration>>

Next ==
    \/ EnableExtrapolation
    \/ DisableExtrapolation
    \/ VolatilityTime
    \/ BlackVarianceTime
    \/ VolatilityDate
    \/ BlackVarianceDate
    \/ VolatilityTenor
    \/ BlackVarianceTenor
    \/ ConvertDates
    \/ OptionDateFromTenor
    \/ SmileSection
    \/ MaxSwapLength
    \/ Discard

Spec == Init /\ [][Next]_vars

\* a surface whose reference date follows a moving evaluation date
MovingNext == Next \/ ReDeriveReferenceDate

MovingSpec == Init /\ [][MovingNext]_vars

\* the calibration test: one surface, the helpers, the model and the loop
CalibrationSpecInit ==
    /\ Init
    /\ dayCounter = "Actual365Fixed"
    /\ bdc_ = "Following"
    /\ maxSwapTenor = Period(1, "Months")
    /\ minStrike = 1

CalibrationSpec == CalibrationSpecInit /\ [][CalibrationNext]_vars

\* the loop runs to its end once entered: no caller can suspend it
FairCalibrationSpec ==
    CalibrationSpec /\ WF_vars(Iterate) /\ WF_vars(Finish)

(***************************************************************************)
(* Properties.                                                             *)
(***************************************************************************)
TimeOps == {"volatility(Time)", "blackVariance(Time)"}
DateOps == {"volatility(Date)", "blackVariance(Date)"}
TenorOps == {"volatility(Period)", "blackVariance(Period)"}

InTimeRange(t) == 0 <= t /\ t <= maxTime
InStrikeRange(k) == minStrike <= k /\ k <= maxStrike
Permitted == last.extrapolate \/ allowsExtrapolation

\* C1: whatever the extrapolate flag and the allowsExtrapolation setting, a
\* time-based query with swapLength < 0 and a date-based query with a
\* negative swapTenor fail and return no value.
C1_NegativeLengthNeverExcused ==
    /\ (last.op \in TimeOps /\ last.swapLength < 0) => ~last.ok
    /\ (last.op \in DateOps /\ last.swapTenor.length < 0) => ~last.ok

C1_Witness ==
    /\ last.op = "volatility(Time)"
    /\ last.swapLength < 0
    /\ last.extrapolate
    /\ allowsExtrapolation
    /\ last.err = "negative swapLength"

\* C2: with optionTime and strike in range and allowsExtrapolation off, a
\* time-based query at swapLength = maxSwapLength() succeeds without the
\* extrapolate flag; one strictly beyond it fails without the flag and
\* succeeds with it.
C2_ExtrapolationGating ==
    (/\ last.op \in TimeOps
     /\ ~allowsExtrapolation
     /\ InTimeRange(last.optionTime)
     /\ InStrikeRange(last.strike))
    => /\ (last.swapLength = maxSwapLength /\ ~last.extrapolate) => last.ok
       /\ (last.swapLength > maxSwapLength /\ ~last.extrapolate) => ~last.ok
       /\ (last.swapLength > maxSwapLength /\ last.extrapolate) => last.ok

C2_Witness ==
    /\ last.op = "volatility(Time)"
    /\ ~allowsExtrapolation
    /\ InTimeRange(last.optionTime)
    /\ InStrikeRange(last.strike)
    /\ last.swapLength = maxSwapLength
    /\ ~last.extrapolate
    /\ last.ok

\* C3: at both checkRange entry points the instrument-maximum check and the
\* strike check are bypassed when the extrapolate flag or the
\* allowsExtrapolation setting is true (either alone); with both false and
\* the earlier checks passed, strike k is accepted iff
\* minStrike() <= k <= maxStrike().
C3_BypassAndInclusiveStrike ==
    /\ (last.op \in TimeOps \cup DateOps /\ Permitted)
       => last.err \notin {"swapLength is past max curve swapLength",
                           "swap tenor is past max tenor",
                           "strike is outside the curve domain"}
    /\ (/\ last.op \in TimeOps
        /\ ~Permitted
        /\ InTimeRange(last.optionTime)
        /\ 0 <= last.swapLength
        /\ last.swapLength <= maxSwapLength)
       => (last.ok <=> InStrikeRange(last.strike))
    /\ (/\ last.op \in DateOps
        /\ ~Permitted
        /\ InTimeRange(timeFromReference(last.optionDate))
        /\ last.swapTenor.length > 0
        /\ PeriodLeq(last.swapTenor, maxSwapTenor))
       => (last.ok <=> InStrikeRange(last.strike))

C3_Witness ==
    /\ last.op = "volatility(Date)"
    /\ allowsExtrapolation
    /\ ~last.extrapolate
    /\ ~PeriodLeq(last.swapTenor, maxSwapTenor)
    /\ last.strike > maxStrike
    /\ last.ok

\* the outcome of the range check on the arguments the caller gave, and the
\* triple volatilityImpl is due for them
CallerCheck ==
    IF last.op \in TimeOps
    THEN checkRange_Time(last.optionTime, last.swapLength, last.strike,
                         last.extrapolate)
    ELSE IF last.op \in DateOps
    THEN checkRange_Date(last.optionDate, last.swapTenor, last.strike,
                         last.extrapolate)
    ELSE checkRange_Date(advance(referenceDate, last.optionTenor, bdc_),
                         last.swapTenor, last.strike, last.extrapolate)

CallerImage ==
    IF last.op \in TimeOps
    THEN <<last.optionTime, last.swapLength, last.strike>>
    ELSE LET d == IF last.op \in DateOps THEN last.optionDate
                  ELSE advance(referenceDate, last.optionTenor, bdc_)
             end == DatePlus(d, last.swapTenor)
         IN  <<yearFraction(dayCounter, referenceDate, d),
               yearFraction(dayCounter, d, end), last.strike>>

\* C4: every volatility and blackVariance overload reaches volatilityImpl
\* only after checkRange has accepted the caller's arguments, and hands it
\* those arguments (or their converted image) unmodified; a query whose range
\* check fails returns no value.
C4_CheckedBeforeImpl ==
    last.op \in TimeOps \cup DateOps \cup TenorOps
    => /\ CallerCheck # "" => (~last.ok /\ last.implArgs = <<>>)
       /\ last.implArgs # <<>>
          => /\ CallerCheck = ""
             /\ last.trace[1] = "checkRange"
             /\ last.implArgs = <<CallerImage>>
       /\ last.ok => last.implArgs # <<>>

C4_Witness ==
    /\ last.op = "blackVariance(Period)"
    /\ last.optionTenor.length > 0
    /\ last.ok
    /\ last.implArgs = <<CallerImage>>

\* C5: blackVariance fails exactly when volatility fails on the same
\* arguments, and otherwise equals v * v * optionTime, v being that
\* volatility and optionTime the overload's own option time (the argument,
\* the time from reference of the option date, or of the date the option
\* tenor resolves to).
C5_VarianceIdentity ==
    /\ last.op = "blackVariance(Time)"
       => LET v == volatility_Time(last.optionTime, last.swapLength,
                                   last.strike, last.extrapolate)
          IN  /\ last.ok = v.ok
              /\ last.ok => last.val = v.val * v.val * last.optionTime
    /\ last.op = "blackVariance(Date)"
       => LET v == volatility_Date(last.optionDate, last.swapTenor,
                                   last.strike, last.extrapolate)
          IN  /\ last.ok = v.ok
              /\ last.ok => last.val = v.val * v.val
                                * timeFromReference(last.optionDate)
    /\ last.op = "blackVariance(Period)"
       => LET v == volatility_Tenor(last.optionTenor, last.swapTenor,
                                    last.strike, last.extrapolate)
              d == advance(referenceDate, last.optionTenor, bdc_)
          IN  /\ last.ok = v.ok
              /\ last.ok => last.val = v.val * v.val * timeFromReference(d)

C5_Witness ==
    /\ last.op = "blackVariance(Date)"
    /\ last.ok
    /\ last.val > 0
    /\ last.implArgs[1][1] # last.implArgs[1][2]

\* C6: when the date-based volatility and the time-based volatility at the
\* converted coordinates both return a value, the two values are equal.
C6_OverloadConsistency ==
    (last.op = "volatility(Date)" /\ last.ok)
    => LET p == convertDates(last.optionDate, last.swapTenor)
           v == volatility_Time(p.first, p.second, last.strike,
                                last.extrapolate)
       IN  (p.ok /\ v.ok) => last.val = v.val

C6_Witness ==
    /\ last.op = "volatility(Date)"
    /\ last.ok
    /\ LET p == convertDates(last.optionDate, last.swapTenor)
       IN  /\ p.ok
           /\ p.first # p.second
           /\ volatility_Time(p.first, p.second, last.strike,
                              last.extrapolate).ok

\* C7: the date-based checkRange accepts (optionDate, swapTenor, strike,
\* extrapolate) if and only if the time-based checkRange accepts the
\* converted pair with the same strike and flag, for every option date.
C7_EntryPointsAgree ==
    last.op \in DateOps
    => LET p == convertDates(last.optionDate, last.swapTenor) IN
       p.ok => ((checkRange_Date(last.optionDate, last.swapTenor,
                                 last.strike, last.extrapolate) = "")
                <=> (checkRange_Time(p.first, p.second, last.strike,
                                     last.extrapolate) = ""))

\* C8: convertDates fails if and only if optionDate + swapTenor <= optionDate;
\* so it fails for every negative and every zero-length tenor, whatever the
\* allowsExtrapolation setting.
C8_ConvertDatesFailure ==
    last.op = "convertDates"
    => /\ ~last.ok <=> DatePlus(last.optionDate, last.swapTenor) <= last.optionDate
       /\ last.swapTenor.length <= 0 => ~last.ok

C8_Witness ==
    /\ last.op = "convertDates"
    /\ allowsExtrapolation
    /\ last.swapTenor.length = 0
    /\ ~last.ok

\* the day counters whose year fraction strictly increases with the end date
StrictlyIncreasingDayCounters ==
    {dc \in {"Actual365Fixed", "Thirty360"} :
        \A d1 \in OptionDates :
            \A d2 \in d1..(d1 + 62) :
                yearFraction(dc, d1, d2) < yearFraction(dc, d1, d2 + 1)}

\* C9: a successful convertDates returns the time from reference of the
\* option date and the year fraction from the option date to
\* optionDate + swapTenor; the latter is strictly positive when the day
\* counter strictly increases with its end date.
C9_ConvertDatesValue ==
    (last.op = "convertDates" /\ last.ok)
    => /\ last.first = yearFraction(dayCounter, referenceDate, last.optionDate)
       /\ last.second = yearFraction(dayCounter, last.optionDate,
                                     DatePlus(last.optionDate, last.swapTenor))
       /\ dayCounter \in StrictlyIncreasingDayCounters => last.second > 0

C9_Witness ==
    /\ last.op = "convertDates"
    /\ last.ok
    /\ last.optionDate > referenceDate
    /\ dayCounter \in StrictlyIncreasingDayCounters
    /\ last.second > 0

\* C10: the tenor-based volatility and blackVariance give what the date-based
\* overload gives (value or error) at the date the reference date advances to
\* by optionTenor under the calendar and the business-day convention, with
\* swapTenor, strike and extrapolate unchanged; optionDateFromTenor is that
\* date.
C10_TenorDelegation ==
    LET d == advance(referenceDate, last.optionTenor, bdc_) IN
    /\ last.op = "volatility(Period)"
       => LET r == volatility_Date(d, last.swapTenor, last.strike,
                                   last.extrapolate)
          IN  last.ok = r.ok /\ last.err = r.err /\ last.val = r.val
    /\ last.op = "blackVariance(Period)"
       => LET r == blackVariance_Date(d, last.swapTenor, last.strike,
                                      last.extrapolate)
          IN  last.ok = r.ok /\ last.err = r.err /\ last.val = r.val
    /\ last.op = "optionDateFromTenor" => last.val = d

C10_Witness ==
    /\ last.op = "blackVariance(Period)"
    /\ last.ok
    /\ advance(referenceDate, last.optionTenor, bdc_)
           # DatePlus(referenceDate, last.optionTenor)

QueryOps == TimeOps \cup DateOps \cup TenorOps

\* C11: on a surface whose strike limits satisfy minStrike() > maxStrike(),
\* no volatility or blackVariance query returns a value, whatever the strike,
\* the extrapolate flag and the allowsExtrapolation setting.
C11_InvertedStrikeLimitsRejected ==
    (last.op \in QueryOps /\ minStrike > maxStrike) => ~last.ok

\* C12: a calibration run entered from Initialized ends in exactly one of
\* Converged, MaxIterationsExceeded and Stalled, after at most MaxIterations
\* iterations and MaxStationaryIterations stationary ones; whichever
\* criterion ends it, the model is left with a vector whose aggregate squared
\* error is no greater than that of the seed and of every proposed vector.
C12_RunTerminatesWithBest ==
    /\ [](iterations <= MaxIterations /\ stationary <= MaxStationaryIterations)
    /\ [][(calState \in Terminal) => (calState' = calState)]_vars
    /\ [][(calState = "Iterating" /\ calState' # "Iterating")
          => /\ calState' \in Terminal
             /\ \A q \in evaluated : (Objective(params))' <= Objective(q)]_vars
    /\ (calState = "Iterating") ~> (calState \in Terminal)

C12_Witness ==
    /\ calState = "MaxIterationsExceeded"
    /\ iterations = MaxIterations
    /\ Objective(params) < Objective(0)
    /\ Cardinality(evaluated) > 2

\* C13: a helper is bound to one pricing engine at a time.  Whatever
\* setPricingEngine calls were made, a cached result of a helper was computed
\* by the engine bound to it now, the calibrationError() read last was
\* computed by the engine bound at the call, and a step that rebinds an
\* engine leaves the quotes, the model's parameters and the run untouched.
C13_BoundEngineComputes ==
    /\ [](\A h \in Helpers : cache[h].valid => cache[h].by = engine[h])
    /\ [](observed.op = "calibrationError"
            => /\ observed.by = engine[observed.helper]
               /\ observed.value
                    = modelValue(observed.helper, observed.by, params)
                        - quote[observed.helper])
    /\ [][(engine' # engine)
            => (quote' = quote /\ params' = params /\ loopVars' = loopVars)]_vars

\* a helper rebound from the BatesEngine to the BatesDetJumpEngine was asked
\* for its error, and the answer is not the one the BatesEngine would give
C13_Witness ==
    /\ observed.op = "calibrationError"
    /\ engine[observed.helper] = "BatesDetJumpEngine"
    /\ observed.by = "BatesDetJumpEngine"
    /\ observed.value # modelValue(observed.helper, "BatesEngine", params)
                          - quote[observed.helper]

\* C14: calibrationError() is never stale.  After every update of the
\* parameter vector a cached error is the error under the current parameters
\* and the current quote, so the aggregate read after the run has ended is
\* the aggregate error of the final parameter vector.
C14_NeverStale ==
    /\ \A h \in Helpers :
           cache[h].valid
             => cache[h].value = modelValue(h, engine[h], params) - quote[h]
    /\ observed.op = "getCalibrationError"
         => observed.value = 100 * 100 * Objective(params)

\* the aggregate was read after a run that moved the model off its seed
C14_Witness ==
    /\ calState \in Terminal
    /\ params # 0
    /\ iterations > 0
    /\ observed.op = "getCalibrationError"
    /\ observed.value = 100 * 100 * Objective(params)
    /\ observed.value # 100 * 100 * Objective(0)

\* C16: the non-negativity check of checkRange accepts zero at both entry
\* points: neither a time-based query with swapLength = 0 nor a date-based
\* query with a zero-length swapTenor is rejected by the second check,
\* whatever the extrapolation flag.
C16_ZeroPassesNonNegativityCheck ==
    /\ (last.op \in TimeOps /\ last.swapLength = 0)
         => checkRange_Time(last.optionTime, last.swapLength, last.strike,
                            last.extrapolate) # "negative swapLength"
    /\ (last.op \in DateOps /\ last.swapTenor.length = 0)
         => checkRange_Date(last.optionDate, last.swapTenor, last.strike,
                            last.extrapolate) # "negative swap tenor"

\* the value maxSwapLength() is claimed to return
C17_Value ==
    last.op = "maxSwapLength"
      => /\ last.ok
         /\ last.val = timeFromReference(DatePlus(referenceDate, maxSwapTenor))
         /\ convertDates(referenceDate, maxSwapTenor).ok
         /\ last.val = convertDates(referenceDate, maxSwapTenor).second

\* C17 as stated: maxSwapLength() = timeFromReference(referenceDate() +
\* maxSwapTenor()) = convertDates(referenceDate(), maxSwapTenor()).second,
\* and its value changes whenever the reference date is re-derived.
C17_ChangesWithReferenceDate ==
    /\ []C17_Value
    /\ [][(referenceDate' # referenceDate)
            => (maxSwapLength' # maxSwapLength)]_vars

\* C17, amended: maxSwapLength() is computed at each call from the reference
\* date of that moment, and equals the time-length convertDates assigns to
\* maxSwapTenor() started at that reference date; a re-derived reference
\* date is followed, whether or not the value comes out different.
C17_MaxSwapLengthFollowsReference ==
    /\ C17_Value
    /\ last.op = "maxSwapLength"
         => last.val = yearFraction(dayCounter, referenceDate,
                                    DatePlus(referenceDate, maxSwapTenor))

\* maxSwapLength() was read after the reference date moved, and its value is
\* not the one it had at construction
C17_Witness ==
    /\ last.op = "maxSwapLength"
    /\ referenceDate # DateOf(1, 2, 1)
    /\ last.val # yearFraction(dayCounter, DateOf(1, 2, 1),
                               DatePlus(DateOf(1, 2, 1), maxSwapTenor))

\* C18: smileSection(optionDate, swapTenor) validates no range: it fails
\* exactly when convertDates fails (optionDate + swapTenor <= optionDate),
\* and otherwise hands the converted pair to the time-based factory and
\* returns its section, whatever the domain limits and the permissions.
C18_SmileSectionUnchecked ==
    last.op = "smileSection(Date)"
      => LET p == convertDates(last.optionDate, last.swapTenor) IN
         /\ last.ok <=> DatePlus(last.optionDate, last.swapTenor) > last.optionDate
         /\ ~last.ok => /\ last.err = p.err
                        /\ last.trace = <<"convertDates">>
         /\ last.ok => /\ last.trace = <<"convertDates", "smileSection">>
                       /\ last.implArgs = << <<p.first, p.second>> >>
                       /\ last.val = smileSection_Time(p.first, p.second)

\* a section was returned for an option date past maxDate and a tenor past
\* maxSwapTenor, with no extrapolation permission
C18_Witness ==
    /\ last.op = "smileSection(Date)"
    /\ last.ok
    /\ last.optionDate > maxDate
    /\ ~PeriodLeq(last.swapTenor, maxSwapTenor)
    /\ ~last.extrapolate
    /\ ~allowsExtrapolation

====
